---- MODULE Spec2Model ----
(***************************************************************************)
(* A model of dumpster's single-threaded cycle collector                   *)
(* (src/dumpster/src/unsync/collect.rs).                                   *)
(*                                                                         *)
(* The heap holds at most NumAlloc GcBoxes; the payload of each box is a   *)
(* struct of NumSlots fields of type RefCell<Option<Gc<Self>>>, whose      *)
(* Collectable implementation visits the fields in order (impls.rs:        *)
(* RefCell and Option delegate to the contained value).  The program holds *)
(* up to MaxExt Gc handles per box outside the heap.                       *)
(*                                                                         *)
(* collect_all is one action: its three passes are computed by the         *)
(* operators below in the order of the code, and the steps of pass 3 are   *)
(* recorded in the history variable run.  StepSpec takes the same          *)
(* collect_all one step at a time, with the step operators the one action  *)
(* iterates; ImplSpec applies the traversals of impls.rs to the payload    *)
(* types it provides.                                                      *)
(*                                                                         *)
(* A dereference of a box whose storage was released has no defined        *)
(* behaviour.  The model records it in ub and stops there: no statement    *)
(* below is made about what follows.                                       *)
(***************************************************************************)
EXTENDS Integers, Sequences, FiniteSets, TLC

NumAlloc == 2
NumSlots == 2
MaxExt == 2
MaxDrops == 3
\* the most elements of a collection payload
MaxLen == 2

Ids == 1..NumAlloc
Slots == 1..NumSlots
None == 0

VARIABLES
    status,        \* per box: "unused", "live", "dropped" (payload destructed), "freed"
    ref_count,     \* GcBox::ref_count
    value,         \* GcBox::value: the Gc fields of the payload, None or a box id
    ext,           \* number of Gc handles the program holds to each box
    to_collect,    \* Dumpster::to_collect (its key set)
    n_ref_drops,   \* Dumpster::n_ref_drops
    n_refs_living, \* Dumpster::n_refs_living
    n_destructed,  \* history: how often each payload destructor has run
    fast_freed,    \* history: boxes released by the acyclic fast path of Gc::drop
    ub,            \* history: a released box was dereferenced
    phase,         \* "running", or "exited" once the thread-local Dumpster was dropped
    unwound,       \* history: a panic has unwound out of some collect_all
    run,           \* history: the collect_all that has just run, or NoRun
    walk,          \* a collect_all executed step by step: its position and locals
    impl           \* a payload of impls.rs and what its last traversal delegated

vars == <<status, ref_count, value, ext, to_collect, n_ref_drops, n_refs_living,
          n_destructed, fast_freed, ub, phase, unwound, run, walk, impl>>

NoRun == [kind |-> "none"]

NoWalk == [pc |-> "idle"]

NoImpl == [op |-> "idle"]

\* The part of the state the operations below transform.
Heap ==
    [status |-> status, ref_count |-> ref_count, value |-> value,
     to_collect |-> to_collect, n_ref_drops |-> n_ref_drops,
     n_refs_living |-> n_refs_living, n_destructed |-> n_destructed,
     fast_freed |-> fast_freed, ub |-> ub]

Install(h) ==
    /\ status' = h.status
    /\ ref_count' = h.ref_count
    /\ value' = h.value
    /\ to_collect' = h.to_collect
    /\ n_ref_drops' = h.n_ref_drops
    /\ n_refs_living' = h.n_refs_living
    /\ n_destructed' = h.n_destructed
    /\ fast_freed' = h.fast_freed
    /\ ub' = h.ub

NoFields == [s \in Slots |-> None]

(***************************************************************************)
(* Registry                                                                *)
(***************************************************************************)

\* Dumpster::mark_dirty: entry(id).or_insert_with(..)
mark_dirty(h, id) == [h EXCEPT !.to_collect = @ \cup {id}]

mark_cleaned_keeps(h, id) == h

\* Dumpster::mark_cleaned: remove(id)
mark_cleaned(h, id) == [h EXCEPT !.to_collect = @ \ {id}]

(***************************************************************************)
(* Gc<T>: new, clone, drop.  The smart pointer's source is not part of the *)
(* files modelled here; these follow its description in the specification. *)
(***************************************************************************)

\* The drop of one Gc pointing at each box of todo, in order; a box whose count
\* reaches zero has its payload destructed (its fields dropped, depth first)
\* and is then released.
RECURSIVE GcDropRun(_, _)
GcDropRun(h, todo) ==
    IF todo = <<>> \/ h.ub THEN h
    ELSE
        LET f == Head(todo)
            rest == Tail(todo)
            id == f.id
        IN
        IF f.op = "dealloc"
        THEN GcDropRun([h EXCEPT !.status[id] = "freed",
                                 !.value[id] = NoFields,
                                 !.fast_freed = @ \cup {id}], rest)
        ELSE IF h.status[id] = "freed"
        THEN [h EXCEPT !.ub = TRUE]
        ELSE
            LET h1 == [h EXCEPT !.n_ref_drops = @ + 1,
                                !.n_refs_living = IF @ > 0 THEN @ - 1 ELSE 0]
            IN
            IF h.ref_count[id] = 0
            THEN \* the box is already being destroyed
                 GcDropRun(h1, rest)
            ELSE IF h.ref_count[id] = 1
            THEN LET h2 == mark_cleaned([h1 EXCEPT !.ref_count[id] = 0], id)
                     h3 == [h2 EXCEPT !.status[id] = "dropped",
                                      !.n_destructed[id] = @ + 1]
                     kids == SelectSeq([s \in Slots |-> h.value[id][s]],
                                       LAMBDA c : c # None)
                     drops == [k \in 1..Len(kids) |-> [op |-> "drop", id |-> kids[k]]]
                 IN GcDropRun(h3, drops \o <<[op |-> "dealloc", id |-> id]>> \o rest)
            ELSE GcDropRun(mark_dirty([h1 EXCEPT !.ref_count[id] = @ - 1], id), rest)

GcDrop(h, id) == GcDropRun(h, <<[op |-> "drop", id |-> id]>>)

(***************************************************************************)
(* Pass 1: BuildRefGraph                                                   *)
(***************************************************************************)

CountEdgeOnce(ref_state, id) == [ref_state EXCEPT ![id] = 1]

\* BuildRefGraph::visit_unsync, the match on ref_state.entry(next_id);
\* an id without an entry is held as 0 (the entries are NonZeroUsize).  The
\* saturation of saturating_add at usize::MAX is out of reach: a count is at
\* most NumAlloc * NumSlots.
CountEdge(ref_state, id) ==
    [ref_state EXCEPT ![id] = IF @ = 0 THEN 1 ELSE @ + 1]

FirstVisitAlways(visited, id) == TRUE

\* "visited.insert(next_id)" in BuildRefGraph::visit_unsync and
\* Sweep::visit_unsync: TRUE when the id was not yet in the set
FirstVisit(visited, id) == id \notin visited

\* One more payload traversal of box id begins.
Enter(entered, id) == [entered EXCEPT ![id] = @ + 1]

\* One step of value.accept(BuildRefGraph): the frame <<id, s>> on top of the
\* stack is the traversal of box id standing before field s.
BuildStep(h, b, stack) ==
    LET id == Head(stack)[1]
        s == Head(stack)[2]
        rest == Tail(stack)
    IN
    IF h.status[id] # "live" THEN [b |-> [b EXCEPT !.ub = TRUE], stack |-> stack]
    ELSE IF s > NumSlots THEN [b |-> b, stack |-> rest]
    ELSE
        LET next_id == h.value[id][s]
            cont == << <<id, s + 1>> >> \o rest
        IN
        IF next_id = None THEN [b |-> b, stack |-> cont]
        ELSE
            LET b1 == [b EXCEPT !.ref_state = CountEdge(@, next_id)] IN
            IF FirstVisit(b.visited, next_id)
            THEN [b |-> [b1 EXCEPT !.visited = @ \cup {next_id},
                                   !.entered = Enter(@, next_id)],
                  stack |-> << <<next_id, 1>> >> \o cont]
            ELSE [b |-> b1, stack |-> cont]

\* value.accept(BuildRefGraph) of the boxes on the stack, to its end
RECURSIVE BuildAccept(_, _, _)
BuildAccept(h, b, stack) ==
    IF stack = <<>> \/ b.ub THEN b
    ELSE LET n == BuildStep(h, b, stack) IN BuildAccept(h, n.b, n.stack)

BuiltNever(visited, k) == FALSE

\* collect_all: "ref_graph_build.visited.contains(k)"
Built(visited, k) == k \in visited

\* collect_all, the body of the loop that builds the reference graph, up to
\* the call of accept: the key k is skipped or marked and its payload entered.
Pass1Key(h, b, k) ==
    IF Built(b.visited, k) THEN [b |-> b, stack |-> <<>>]
    ELSE [b |-> [b EXCEPT !.visited = @ \cup {k}, !.entered = Enter(@, k)],
          stack |-> << <<k, 1>> >>]

\* collect_all, the loop over to_collect that builds the reference graph
RECURSIVE Pass1(_, _, _)
Pass1(h, b, ord) ==
    IF ord = <<>> \/ b.ub THEN b
    ELSE LET n == Pass1Key(h, b, Head(ord)) IN
         Pass1(h, BuildAccept(h, n.b, n.stack), Tail(ord))

(***************************************************************************)
(* Pass 2: Sweep                                                           *)
(***************************************************************************)

IsRootUntraced(h, ref_state, id) == ref_state[id] = 0

\* collect_all, is_root
IsRoot(h, ref_state, id) ==
    IF ref_state[id] = 0 THEN TRUE ELSE h.ref_count[id] # ref_state[id]

\* collect_all: "is_root && !sweep.visited.insert(*id)"; newly is what insert
\* returns, TRUE when the id was not yet in the set.
SweepsFrom(is_root, newly) == is_root /\ ~newly

\* One step of value.accept(Sweep) on the frame on top of the stack
SweepStep(h, sw, stack) ==
    LET id == Head(stack)[1]
        s == Head(stack)[2]
        rest == Tail(stack)
    IN
    IF h.status[id] # "live" THEN [sw |-> [sw EXCEPT !.ub = TRUE], stack |-> stack]
    ELSE IF s > NumSlots THEN [sw |-> sw, stack |-> rest]
    ELSE
        LET next_id == h.value[id][s]
            cont == << <<id, s + 1>> >> \o rest
        IN
        IF next_id = None THEN [sw |-> sw, stack |-> cont]
        ELSE IF FirstVisit(sw.visited, next_id)
        THEN [sw |-> [sw EXCEPT !.visited = @ \cup {next_id},
                                !.entered = Enter(@, next_id)],
              stack |-> << <<next_id, 1>> >> \o cont]
        ELSE [sw |-> sw, stack |-> cont]

\* value.accept(Sweep) of the boxes on the stack, to its end
RECURSIVE SweepAccept(_, _, _)
SweepAccept(h, sw, stack) ==
    IF stack = <<>> \/ sw.ub THEN sw
    ELSE LET n == SweepStep(h, sw, stack) IN SweepAccept(h, n.sw, n.stack)

\* collect_all, the body of the loop that sweeps from the roots, up to the
\* call of accept
Pass2Key(h, ref_state, sw, id) ==
    IF h.status[id] = "freed" THEN [sw |-> [sw EXCEPT !.ub = TRUE], stack |-> <<>>]
    ELSE
        LET is_root == IsRoot(h, ref_state, id)
            newly == id \notin sw.visited
            \* && evaluates insert only for a root
            sw1 == IF is_root
                   THEN [sw EXCEPT !.visited = @ \cup {id}, !.roots = @ \cup {id}]
                   ELSE sw
        IN
        IF SweepsFrom(is_root, newly)
        THEN [sw |-> [sw1 EXCEPT !.entered = Enter(@, id)], stack |-> << <<id, 1>> >>]
        ELSE [sw |-> sw1, stack |-> <<>>]

\* collect_all, the loop over to_collect that sweeps from the roots
RECURSIVE Pass2(_, _, _, _)
Pass2(h, ref_state, sw, ord) ==
    IF ord = <<>> \/ sw.ub THEN sw
    ELSE LET n == Pass2Key(h, ref_state, sw, Head(ord)) IN
         Pass2(h, ref_state, SweepAccept(h, n.sw, n.stack), Tail(ord))

(***************************************************************************)
(* Pass 3: DestroyGcs                                                      *)
(***************************************************************************)

Event(ev, id, slot, child, fields, gone) ==
    [ev |-> ev, id |-> id, slot |-> slot, child |-> child, fields |-> fields,
     gone |-> gone]

\* The boxes whose payload destructor has run.
Destructed(h) == {j \in Ids : h.status[j] \in {"dropped", "freed"}}

DestroysUnreachable(reachable, visited, id) == id \notin reachable

\* "!reachable.contains(&id) && visited.insert(id)", in collect_all and in
\* DestroyGcs::visit_unsync
Destroys(reachable, visited, id) == id \notin reachable /\ id \notin visited

KeepField(val, id, s) == val

\* DestroyGcs::visit_unsync: gc.ptr = None
NullField(val, id, s) == [val EXCEPT ![id][s] = None]

CountKept(d, id) == d

\* ref_count.set(0), in destroy_gcs and in DestroyGcs::visit_unsync
ForceZero(d, id) ==
    [d EXCEPT !.h.ref_count[id] = 0,
              !.events = Append(@, Event("zero", id, 0, None, NoFields, {}))]

\* What is pushed on collection_queue: destroy_gcs pushes the box pointer with
\* the layout of the payload, DestroyGcs::visit_unsync pushes the pointer to
\* the count with the layout of the box.
QueueEntry(id, via) ==
    IF via = "drain"
    THEN [id |-> id, ptr |-> "box", layout |-> "value"]
    ELSE [id |-> id, ptr |-> "count", layout |-> "box"]

\* One step of the destruction of the boxes on the stack.  A frame is a box
\* whose count was forced to zero, standing before field slot of its payload;
\* via tells whether destroy_gcs (the drain of the registry) or visit_unsync
\* (a parent's field) destroys it.  bad is the box whose destructor
\* misbehaves, and how.
DestroyStep(d, reachable, bad, stack) ==
    LET f == Head(stack)
        rest == Tail(stack)
        id == f.id
    IN
    IF d.h.status[id] # "live" THEN [d |-> [d EXCEPT !.ub = TRUE], stack |-> stack]
    ELSE IF f.slot <= NumSlots
    THEN
        LET p == d.h.value[id][f.slot]
            cont == <<[f EXCEPT !.slot = @ + 1]>> \o rest
        IN
        IF p = None THEN [d |-> d, stack |-> cont]
        ELSE
            LET d1 == [d EXCEPT
                         !.h.value = NullField(@, id, f.slot),
                         !.events = Append(@, Event("null", id, f.slot, p,
                                                    NoFields, {}))]
            IN
            IF Destroys(reachable, d.visited, p)
            THEN IF d.h.status[p] = "freed"
                 THEN [d |-> [d1 EXCEPT !.ub = TRUE], stack |-> stack]
                 ELSE [d |-> ForceZero([d1 EXCEPT !.visited = @ \cup {p},
                                                  !.entered = Enter(@, p)], p),
                       stack |-> <<[id |-> p, slot |-> 1, via |-> "visit"]>> \o cont]
            ELSE [d |-> d1, stack |-> cont]
    ELSE
        \* collection_queue.push, then drop_in_place of the payload
        LET d1 == [d EXCEPT
                     !.queue = Append(@, QueueEntry(id, f.via)),
                     !.events = Append(Append(@,
                         Event("push", id, 0, None, NoFields, {})),
                         Event("drop", id, 0, None, d.h.value[id], Destructed(d.h))),
                     !.h.status[id] = "dropped",
                     !.h.n_destructed[id] = @ + 1]
        IN
        IF bad.id # id THEN [d |-> d1, stack |-> rest]
        ELSE IF bad.how = "panic"
        THEN [d |-> [d1 EXCEPT
                       !.outcome = "panicked",
                       !.events = Append(@, Event("panic", id, 0, None, NoFields, {}))],
              stack |-> rest]
        ELSE \* the destructor calls collect_all: n_ref_drops.set(0), then
             \* to_collect.borrow() while the drain holds borrow_mut()
             [d |-> [d1 EXCEPT
                       !.outcome = "panicked",
                       !.h.n_ref_drops = 0,
                       !.events = Append(@, Event("reenter", id, 0, None, NoFields, {}))],
              stack |-> rest]

\* The destruction of the boxes on the stack, to its end
RECURSIVE DestroyRun(_, _, _, _)
DestroyRun(d, reachable, bad, stack) ==
    IF stack = <<>> \/ d.ub \/ d.outcome # "returned" THEN d
    ELSE LET n == DestroyStep(d, reachable, bad, stack) IN
         DestroyRun(n.d, reachable, bad, n.stack)

\* collect_all, the body of the drain loop up to the call of destroy_gcs, and
\* the first statement of destroy_gcs
Pass3Key(d, reachable, id) ==
    IF Destroys(reachable, d.visited, id)
    THEN IF d.h.status[id] = "freed"
         THEN [d |-> [d EXCEPT !.ub = TRUE], stack |-> <<>>]
         ELSE [d |-> ForceZero([d EXCEPT !.visited = @ \cup {id},
                                         !.entered = Enter(@, id)], id),
               stack |-> <<[id |-> id, slot |-> 1, via |-> "drain"]>>]
    ELSE [d |-> d, stack |-> <<>>]

\* collect_all, the drain of to_collect
RECURSIVE Pass3(_, _, _, _)
Pass3(d, reachable, bad, ord) ==
    IF ord = <<>> \/ d.ub \/ d.outcome # "returned" THEN d
    ELSE LET n == Pass3Key(d, reachable, Head(ord)) IN
         Pass3(DestroyRun(n.d, reachable, bad, n.stack), reachable, bad, Tail(ord))

\* collect_all, the body of the loop over collection_queue: dealloc(ptr, layout)
DeallocStep(d, q) ==
    IF d.h.status[q.id] = "freed" THEN [d EXCEPT !.ub = TRUE]
    ELSE [d EXCEPT
            !.h.status[q.id] = "freed",
            !.events = Append(@, Event("dealloc", q.id, 0, None, NoFields, {}))]

\* collect_all, the loop over collection_queue
RECURSIVE Dealloc(_, _)
Dealloc(d, queue) ==
    IF queue = <<>> \/ d.ub THEN d
    ELSE Dealloc(DeallocStep(d, Head(queue)), Tail(queue))

\* collect_all, after the drain: a collection that returns releases the queue,
\* a panic unwinds past the loop.
Finish(d) == IF d.outcome = "returned" THEN Dealloc(d, d.queue) ELSE d

KeepRegistry(h, d) == d.h

\* The registry after collect_all: drain() leaves the map empty, also when the
\* Drain is dropped by an unwinding panic.
Drained(h, d) == [d.h EXCEPT !.to_collect = {}]

ResetCounters(h) == [h EXCEPT !.n_ref_drops = 0, !.n_refs_living = 0]

\* collect_all, its first statement
ResetDrops(h) == [h EXCEPT !.n_ref_drops = 0]

\* No payload traversal has begun.
NoVisits == [i \in Ids |-> 0]

\* BuildRefGraph, Sweep and DestroyGcs as collect_all constructs them
Build0 == [visited |-> {}, ref_state |-> [i \in Ids |-> 0], entered |-> NoVisits,
           ub |-> FALSE]

Sweep0 == [visited |-> {}, roots |-> {}, entered |-> NoVisits, ub |-> FALSE]

Destroy0(h, sw) ==
    [h |-> h, visited |-> {}, queue |-> <<>>, events |-> <<>>, entered |-> NoVisits,
     outcome |-> "returned", ub |-> sw.ub]

\* Dumpster::collect_all on heap h0, with to_collect iterated in the order ord.
CollectAll(h0, ord, bad) ==
    LET h == ResetDrops(h0)
        b == Pass1(h, Build0, ord)
        sw == IF b.ub THEN [Sweep0 EXCEPT !.ub = TRUE]
              ELSE Pass2(h, b.ref_state, Sweep0, ord)
        d == Finish(Pass3(Destroy0(h, sw), sw.visited, bad, ord))
    IN
    [pre |-> h0,
     order |-> ord,
     traced |-> b.visited,
     ref_state |-> b.ref_state,
     reachable |-> sw.visited,
     roots |-> sw.roots,
     queue |-> d.queue,
     events |-> d.events,
     outcome |-> IF d.ub THEN "ub" ELSE d.outcome,
     h |-> IF d.ub THEN [h0 EXCEPT !.ub = TRUE] ELSE Drained(h, d)]

(***************************************************************************)
(* The program: its operations on Gc handles and payloads, collect() and   *)
(* the end of the thread.                                                  *)
(***************************************************************************)

\* The thread-local Dumpster as constructed, and no box allocated
Fresh ==
    /\ status = [i \in Ids |-> "unused"]
    /\ ref_count = [i \in Ids |-> 0]
    /\ value = [i \in Ids |-> NoFields]
    /\ ext = [i \in Ids |-> 0]
    /\ to_collect = {}
    /\ n_ref_drops = 0
    /\ n_refs_living = 0
    /\ n_destructed = [i \in Ids |-> 0]
    /\ fast_freed = {}
    /\ ub = FALSE
    /\ phase = "running"
    /\ unwound = FALSE
    /\ run = NoRun

Init ==
    /\ Fresh
    /\ walk = NoWalk
    /\ impl = NoImpl

Running == phase = "running" /\ ~ub

\* The orders in which the HashMap to_collect may be iterated.
Orders(S) ==
    {o \in [1..Cardinality(S) -> S] : \A a, b \in 1..Cardinality(S) : o[a] = o[b] => a = b}

\* What the payload destructors do during a collection: all return, or the
\* destructor of one box panics or calls collect().
Misbehaviours ==
    {[id |-> None, how |-> "none"]}
        \cup {[id |-> i, how |-> w] : i \in Ids, w \in {"panic", "collect"}}

\* Gc::new; addresses are handed out in order and not reused.
GcNew ==
    /\ Running
    /\ \E i \in Ids :
        /\ status[i] = "unused"
        /\ \A j \in Ids : j < i => status[j] # "unused"
        /\ status' = [status EXCEPT ![i] = "live"]
        /\ ref_count' = [ref_count EXCEPT ![i] = 1]
        /\ ext' = [ext EXCEPT ![i] = 1]
        /\ n_refs_living' = n_refs_living + 1
    /\ run' = NoRun
    /\ UNCHANGED <<walk, impl>>
    /\ UNCHANGED <<value, to_collect, n_ref_drops, n_destructed, fast_freed, ub, phase, unwound>>

\* Gc::clone of a handle the program holds
GcClone ==
    /\ Running
    /\ \E i \in Ids :
        /\ ext[i] > 0
        /\ ext[i] < MaxExt
        /\ IF status[i] = "freed"
           THEN ub' = TRUE /\ UNCHANGED <<ref_count, ext, n_refs_living>>
           ELSE /\ ref_count' = [ref_count EXCEPT ![i] = @ + 1]
                /\ ext' = [ext EXCEPT ![i] = @ + 1]
                /\ n_refs_living' = n_refs_living + 1
                /\ UNCHANGED ub
    /\ run' = NoRun
    /\ UNCHANGED <<walk, impl>>
    /\ UNCHANGED <<status, value, to_collect, n_ref_drops, n_destructed, fast_freed, phase, unwound>>

\* Gc::drop of a handle the program holds
GcDropHandle ==
    /\ Running
    /\ \E i \in Ids :
        /\ ext[i] > 0
        /\ LET h == GcDrop(Heap, i) IN
            /\ h.n_ref_drops <= MaxDrops
            /\ Install(h)
            /\ ext' = IF h.ub THEN ext ELSE [ext EXCEPT ![i] = @ - 1]
    /\ run' = NoRun
    /\ UNCHANGED <<walk, impl>>
    /\ UNCHANGED <<phase, unwound>>

\* *a.field[s].borrow_mut() = Some(b.clone()) on an empty field, through
\* handles a and b the program holds
SetField ==
    /\ Running
    /\ \E i \in Ids, s \in Slots, j \in Ids :
        /\ ext[i] > 0
        /\ ext[j] > 0
        /\ value[i][s] = None
        /\ IF status[i] # "live" \/ status[j] = "freed"
           THEN ub' = TRUE /\ UNCHANGED <<value, ref_count, n_refs_living>>
           ELSE /\ value' = [value EXCEPT ![i][s] = j]
                /\ ref_count' = [ref_count EXCEPT ![j] = @ + 1]
                /\ n_refs_living' = n_refs_living + 1
                /\ UNCHANGED ub
    /\ run' = NoRun
    /\ UNCHANGED <<walk, impl>>
    /\ UNCHANGED <<status, ext, to_collect, n_ref_drops, n_destructed, fast_freed, phase, unwound>>

\* a.field[s].borrow_mut().take(): the Gc taken out of the field is dropped
ClearField ==
    /\ Running
    /\ \E i \in Ids, s \in Slots :
        /\ ext[i] > 0
        /\ status[i] = "live"
        /\ value[i][s] # None
        /\ LET h == GcDrop([Heap EXCEPT !.value[i][s] = None], value[i][s]) IN
            /\ h.n_ref_drops <= MaxDrops
            /\ Install(IF h.ub THEN [Heap EXCEPT !.ub = TRUE] ELSE h)
    /\ run' = NoRun
    /\ UNCHANGED <<walk, impl>>
    /\ UNCHANGED <<ext, phase, unwound>>

\* The record of a collection, with what the collection right before it (no
\* operation in between) did.
Recorded(r) ==
    [kind |-> "collect", pre |-> r.pre, order |-> r.order, traced |-> r.traced,
     ref_state |-> r.ref_state, reachable |-> r.reachable, roots |-> r.roots,
     queue |-> r.queue,
     events |-> r.events, outcome |-> r.outcome,
     prev |-> IF run.kind = "collect"
              THEN [outcome |-> run.outcome, events |-> run.events]
              ELSE [outcome |-> "none", events |-> <<>>]]

\* collect(): DUMPSTER.with(Dumpster::collect_all)
Collect ==
    /\ Running
    /\ \E ord \in Orders(to_collect), bad \in Misbehaviours :
        LET r == CollectAll(Heap, ord, bad) IN
            /\ Install(r.h)
            /\ run' = Recorded(r)
            /\ unwound' = (unwound \/ r.outcome = "panicked")
    /\ UNCHANGED <<ext, phase, walk, impl>>

\* The thread ends with no handle left on its stack: Drop for Dumpster
ThreadExit ==
    /\ Running
    /\ \A i \in Ids : ext[i] = 0
    /\ \E ord \in Orders(to_collect), bad \in Misbehaviours :
        LET r == CollectAll(Heap, ord, bad) IN
            /\ Install(r.h)
            /\ run' = Recorded(r)
            /\ unwound' = (unwound \/ r.outcome = "panicked")
    /\ phase' = "exited"
    /\ UNCHANGED <<ext, walk, impl>>

Next ==
    \/ GcNew
    \/ GcClone
    \/ GcDropHandle
    \/ SetField
    \/ ClearField
    \/ Collect
    \/ ThreadExit

Spec == Init /\ [][Next]_vars

(***************************************************************************)
(* collect_all step by step: one traversal step, one loop iteration or one *)
(* deallocation at a time, on a heap the program has built.                *)
(***************************************************************************)

\* collect_all called on heap h0: its locals before the first loop
WalkStart(h0, ord, bad) ==
    [pc |-> "pass1", pre |-> h0, h |-> ResetDrops(h0), order |-> ord, bad |-> bad,
     keys |-> ord, stack |-> <<>>, b |-> Build0, sw |-> Sweep0,
     d |-> Destroy0(ResetDrops(h0), Sweep0), todo |-> <<>>]

\* The next step of collect_all
WalkNext(w) ==
    CASE w.pc = "pass1" ->
            IF w.b.ub THEN [w EXCEPT !.pc = "done", !.d.ub = TRUE]
            ELSE IF w.stack # <<>>
            THEN LET n == BuildStep(w.h, w.b, w.stack) IN
                 [w EXCEPT !.b = n.b, !.stack = n.stack]
            ELSE IF w.keys # <<>>
            THEN LET n == Pass1Key(w.h, w.b, Head(w.keys)) IN
                 [w EXCEPT !.b = n.b, !.stack = n.stack, !.keys = Tail(@)]
            ELSE [w EXCEPT !.pc = "pass2", !.keys = w.order]
      [] w.pc = "pass2" ->
            IF w.sw.ub THEN [w EXCEPT !.pc = "done", !.d.ub = TRUE]
            ELSE IF w.stack # <<>>
            THEN LET n == SweepStep(w.h, w.sw, w.stack) IN
                 [w EXCEPT !.sw = n.sw, !.stack = n.stack]
            ELSE IF w.keys # <<>>
            THEN LET n == Pass2Key(w.h, w.b.ref_state, w.sw, Head(w.keys)) IN
                 [w EXCEPT !.sw = n.sw, !.stack = n.stack, !.keys = Tail(@)]
            ELSE [w EXCEPT !.pc = "pass3", !.keys = w.order,
                           !.d = Destroy0(w.h, w.sw)]
      [] w.pc = "pass3" ->
            IF w.d.ub \/ w.d.outcome # "returned" THEN [w EXCEPT !.pc = "done"]
            ELSE IF w.stack # <<>>
            THEN LET n == DestroyStep(w.d, w.sw.visited, w.bad, w.stack) IN
                 [w EXCEPT !.d = n.d, !.stack = n.stack]
            ELSE IF w.keys # <<>>
            THEN LET n == Pass3Key(w.d, w.sw.visited, Head(w.keys)) IN
                 [w EXCEPT !.d = n.d, !.stack = n.stack, !.keys = Tail(@)]
            ELSE [w EXCEPT !.pc = "dealloc", !.todo = w.d.queue]
      [] w.pc = "dealloc" ->
            IF w.d.ub THEN [w EXCEPT !.pc = "done"]
            ELSE IF w.todo # <<>>
            THEN [w EXCEPT !.d = DeallocStep(w.d, Head(w.todo)), !.todo = Tail(@)]
            ELSE [w EXCEPT !.pc = "done"]
      [] OTHER -> w

\* What collect_all has done when the steps are through, as CollectAll tells it
WalkResult(w) ==
    [pre |-> w.pre,
     order |-> w.order,
     traced |-> w.b.visited,
     ref_state |-> w.b.ref_state,
     reachable |-> w.sw.visited,
     roots |-> w.sw.roots,
     queue |-> w.d.queue,
     events |-> w.d.events,
     outcome |-> IF w.d.ub THEN "ub" ELSE w.d.outcome,
     h |-> IF w.d.ub THEN [w.pre EXCEPT !.ub = TRUE] ELSE Drained(w.h, w.d)]

\* f[1] + ... + f[n]
RECURSIVE SumTo(_, _)
SumTo(f, n) == IF n = 0 THEN 0 ELSE f[n] + SumTo(f, n - 1)

\* A heap the program has built: live boxes with exact counts, each held by a
\* handle or a field, any of them registered; collect() is called on it.
StepInit ==
    /\ status \in [Ids -> {"unused", "live"}]
    /\ value \in [Ids -> [Slots -> Ids \cup {None}]]
    /\ ext \in [Ids -> 0..MaxExt]
    /\ to_collect \in SUBSET Ids
    /\ \A i \in Ids :
        /\ status[i] = "unused" => (value[i] = NoFields /\ ext[i] = 0)
        /\ \A s \in Slots : value[i][s] # None => status[value[i][s]] = "live"
        /\ i \in to_collect => status[i] = "live"
    /\ ref_count = [i \in Ids |->
            ext[i] + Cardinality({p \in Ids \X Slots : value[p[1]][p[2]] = i})]
    /\ \A i \in Ids : status[i] = "live" => ref_count[i] > 0
    /\ n_ref_drops = Cardinality(to_collect)
    /\ n_refs_living = SumTo(ref_count, NumAlloc)
    /\ n_destructed = [i \in Ids |-> 0]
    /\ fast_freed = {}
    /\ ub = FALSE
    /\ phase = "running"
    /\ unwound = FALSE
    /\ run = NoRun
    /\ impl = NoImpl
    /\ \E ord \in Orders(to_collect) :
        walk = WalkStart(Heap, ord, [id |-> None, how |-> "none"])

\* collect_all takes its next step on the heap.
Walked ==
    /\ walk' = WalkNext(walk)
    /\ Install(IF walk'.pc = "done" THEN WalkResult(walk').h ELSE walk'.d.h)
    /\ UNCHANGED <<ext, phase, unwound, run, impl>>

\* A step of the loop that builds the reference graph
StepPass1 ==
    /\ walk.pc = "pass1"
    /\ Walked

\* A step of the loop that sweeps from the roots
StepPass2 ==
    /\ walk.pc = "pass2"
    /\ Walked

\* A step of the drain of to_collect
StepPass3 ==
    /\ walk.pc = "pass3"
    /\ Walked

\* A step of the loop over collection_queue
StepDealloc ==
    /\ walk.pc = "dealloc"
    /\ Walked

StepNext ==
    \/ StepPass1
    \/ StepPass2
    \/ StepPass3
    \/ StepDealloc

\* collect_all is straight-line code of the calling thread: it goes on until
\* it returns.
StepSpec == StepInit /\ [][StepNext]_vars /\ WF_vars(StepNext)

(***************************************************************************)
(* impls.rs: the traversals of the provided payload types                  *)
(***************************************************************************)

\* A payload: its type, the elements it contains in iteration order, the
\* box a Gc points to, the borrow flag of a RefCell.
Payload(kind, id, borrow, items) ==
    [kind |-> kind, id |-> id, borrow |-> borrow, items |-> items]

\* A Gc field pointing to box i
GcTo(i) == Payload("Gc", i, "none", <<>>)

\* (), the integers, the floats, AtomicUsize
Leaf == Payload("leaf", None, "none", <<>>)

\* &'a T, borrowing e
RefTo(e) == Payload("ref", None, "none", <<e>>)

\* The state of a RefCell's borrow flag: free, borrowed by Ref guards, or
\* borrowed by a RefMut guard.
Borrows == {"none", "shared", "mut"}

Collections == {"Vec", "VecDeque", "LinkedList"}

Sets == {"HashSet", "BinaryHeap"}

\* RefCell::borrow() and RefCell::borrow_mut() panic on a conflicting borrow.
BorrowPanics(op, borrow) ==
    IF op = "destroy_gcs" THEN borrow # "none" ELSE borrow = "mut"

\* The elements an operation of impls.rs delegates to, in order, and whether
\* it returns.
Delegated(op, p) ==
    CASE p.kind = "ref" -> [calls |-> <<>>, outcome |-> "returned"]
      [] p.kind = "leaf" -> [calls |-> <<>>, outcome |-> "returned"]
      [] p.kind = "RefCell" ->
            IF BorrowPanics(op, p.borrow)
            THEN [calls |-> <<>>, outcome |-> "panicked"]
            ELSE [calls |-> p.items, outcome |-> "returned"]
      [] p.kind = "Option" -> [calls |-> p.items, outcome |-> "returned"]
      [] p.kind \in Collections -> [calls |-> p.items, outcome |-> "returned"]
      [] p.kind \in Sets -> [calls |-> p.items, outcome |-> "returned"]
      [] OTHER -> [calls |-> <<>>, outcome |-> "returned"]

\* The payload after the operation: destroy_gcs drains a set.
After(op, p) ==
    IF op = "destroy_gcs" /\ p.kind \in Sets THEN [p EXCEPT !.items = <<>>] ELSE p

\* The operation on the payloads of todo, one after the other, each
\* delegating to its elements first: the Gc pointers reported, until a panic.
RECURSIVE Traverse(_, _, _)
Traverse(op, todo, acc) ==
    IF todo = <<>> THEN [reported |-> acc, outcome |-> "returned"]
    ELSE
        LET p == Head(todo) IN
        IF p.kind = "Gc" THEN Traverse(op, Tail(todo), Append(acc, p.id))
        ELSE
            LET n == Delegated(op, p) IN
            IF n.outcome = "panicked" THEN [reported |-> acc, outcome |-> "panicked"]
            ELSE Traverse(op, n.calls \o Tail(todo), acc)

\* The sequences of at most n elements of T
SeqsUpTo(T, n) == UNION {[1..k -> T] : k \in 0..n}

\* The element types T of the payloads: Gc, a leaf, a shared reference,
\* Option<Gc>, RefCell<Gc>
ElemTypes ==
    {{GcTo(i) : i \in Ids},
     {Leaf},
     {RefTo(GcTo(i)) : i \in Ids},
     {Payload("Option", None, "none", s) : s \in SeqsUpTo({GcTo(i) : i \in Ids}, 1)},
     {Payload("RefCell", None, f, <<GcTo(i)>>) : i \in Ids, f \in Borrows}}

\* The payloads of type Option<T>, RefCell<T>, a collection or a set of T
PayloadsOf(T) ==
    {Payload("Option", None, "none", s) : s \in SeqsUpTo(T, 1)}
        \cup {Payload("RefCell", None, f, <<e>>) : e \in T, f \in Borrows}
        \cup {Payload(k, None, "none", s) : k \in Collections, s \in SeqsUpTo(T, MaxLen)}
        \cup {Payload("BinaryHeap", None, "none", s) : s \in SeqsUpTo(T, MaxLen)}
        \cup {Payload("HashSet", None, "none", s) :
                s \in {q \in SeqsUpTo(T, MaxLen) :
                          \A a, b \in 1..Len(q) : q[a] = q[b] => a = b}}

Payloads == UNION {PayloadsOf(T) : T \in ElemTypes}

\* A payload in a box, before the collector traverses it
ImplInit ==
    /\ Fresh
    /\ walk = NoWalk
    /\ \E p \in Payloads :
        impl = [op |-> "new", payload |-> p, arg |-> FALSE, calls |-> <<>>,
                reported |-> <<>>, outcome |-> "none", after |-> p]

\* The elements the operation on p has delegated to when it ends: all of
\* Delegated, or those up to the first whose traversal panics.
Calls(op, p) ==
    LET c == Delegated(op, p).calls
        stop == {k \in 1..Len(c) : Traverse(op, <<c[k]>>, <<>>).outcome = "panicked"}
    IN
    IF stop = {} THEN c
    ELSE SubSeq(c, 1, CHOOSE k \in stop : \A j \in stop : k <= j)

\* The operation op on the payload
Applied(op, arg) ==
    /\ impl' = [op |-> op, payload |-> impl.payload, arg |-> arg,
                calls |-> Calls(op, impl.payload),
                reported |-> Traverse(op, <<impl.payload>>, <<>>).reported,
                outcome |-> Traverse(op, <<impl.payload>>, <<>>).outcome,
                after |-> After(op, impl.payload)]
    /\ UNCHANGED <<status, ref_count, value, ext, to_collect, n_ref_drops,
                   n_refs_living, n_destructed, fast_freed, ub, phase, unwound,
                   run, walk>>

\* Collectable::add_to_ref_graph
AddToRefGraph ==
    /\ impl.op = "new"
    /\ Applied("add_to_ref_graph", FALSE)

\* Collectable::sweep
SweepPayload ==
    /\ impl.op = "new"
    /\ \E is_accessible \in BOOLEAN : Applied("sweep", is_accessible)

\* Collectable::destroy_gcs
DestroyGcsOf ==
    /\ impl.op = "new"
    /\ Applied("destroy_gcs", FALSE)

ImplNext ==
    \/ AddToRefGraph
    \/ SweepPayload
    \/ DestroyGcsOf

ImplSpec == ImplInit /\ [][ImplNext]_vars

(***************************************************************************)
(* The pointer graph                                                       *)
(***************************************************************************)

\* The boxes the fields of the boxes of S point to.
Targets(val, S) == {val[i][s] : i \in S, s \in Slots} \ {None}

RECURSIVE Closure(_, _)
Closure(val, S) ==
    LET T == S \cup Targets(val, S) IN IF T = S THEN S ELSE Closure(val, T)

\* The boxes reached from i by one or more Gc edges, and by zero or more.
ReachPlus(val, i) == Closure(val, Targets(val, {i}))
ReachStar(val, i) == Closure(val, {i})

OnCycleWith(val, i, j) == j \in ReachPlus(val, i) /\ i \in ReachPlus(val, j)

\* The number of Gc pointers to id: the program's handles and the fields.
PtrCount(h, e, id) ==
    e[id] + Cardinality({p \in Ids \X Slots : h.value[p[1]][p[2]] = id})

\* The boxes a collection has destroyed: count forced to zero, queued or
\* payload destructed.
Destroyed(r) ==
    {r.events[k].id : k \in {n \in 1..Len(r.events) :
                               r.events[n].ev \in {"zero", "push", "drop"}}}

EventIds(r, ev) ==
    {r.events[k].id : k \in {n \in 1..Len(r.events) : r.events[n].ev = ev}}

Returned == run.kind = "collect" /\ run.outcome = "returned"

(***************************************************************************)
(* The claims                                                              *)
(***************************************************************************)

\* C1: external liveness.  When collect_all runs while a box of a reference
\* cycle has a handle held by the program, no box of that cycle is destroyed
\* (count forced to 0, queued, payload destructed).
C1_ExternalLiveness ==
    Returned =>
        \A i, j \in Ids :
            (run.pre.status[i] = "live" /\ ext[i] > 0 /\ OnCycleWith(run.pre.value, i, j))
                => j \notin Destroyed(run)

\* S is strongly connected (a single box counts when it points to itself).
StronglyConnected(h, S) ==
    \A i, j \in S : h.status[i] = "live" /\ j \in ReachPlus(h.value, i)

\* No handle and no field of a box outside S points into S.
NoOutsideRefs(h, e, S) ==
    \A i \in S :
        /\ e[i] = 0
        /\ \A j \in Ids \ S, s \in Slots : h.value[j][s] # i

\* C2: cycle reclamation.  A strongly connected set of boxes without references
\* from outside, a member of which a drop has registered, is destructed and
\* released as a whole by one collect_all, which leaves the registry empty.
C2_CycleReclamation ==
    Returned =>
        \A S \in (SUBSET Ids) \ {{}} :
            (/\ StronglyConnected(run.pre, S)
             /\ NoOutsideRefs(run.pre, ext, S)
             /\ S \cap run.pre.to_collect # {})
                => /\ \A i \in S : status[i] = "freed" /\ i \in EventIds(run, "drop")
                   /\ to_collect = {}

\* C3: destructor count.  When the thread has ended with no handle left and the
\* final collect_all has returned, no destructor having panicked in any
\* collection, the destructor of every box ever created has run exactly once.
C3_DestructorCount ==
    (phase = "exited" /\ Returned /\ ~unwound) =>
        \A i \in Ids : status[i] # "unused" => n_destructed[i] = 1

\* C4: idempotence.  When collect_all has returned the registry is empty, and
\* a collect_all that runs right after one that returned destructs nothing,
\* releases nothing and leaves the registry empty.
C4_Idempotence ==
    /\ Returned => to_collect = {}
    /\ (Returned /\ run.prev.outcome = "returned") =>
            /\ run.events = <<>>
            /\ run.queue = <<>>
            /\ status = run.pre.status
            /\ n_destructed = run.pre.n_destructed
            /\ to_collect = {}

\* A second collection right after one that destroyed a box and spared another.
C4_Witness ==
    /\ Returned
    /\ run.prev.outcome = "returned"
    /\ run.prev.events # <<>>
    /\ \E i \in Ids : status[i] = "live"

\* C5: no use after free in destructors.  Whenever collect_all runs the
\* destructor of a payload, each Gc field of that payload is null or points to a
\* box whose payload has not been destructed yet.
C5_NoUseAfterFree ==
    run.kind = "collect" =>
        \A k \in 1..Len(run.events) :
            run.events[k].ev = "drop" =>
                \A s \in Slots :
                    \/ run.events[k].fields[s] = None
                    \/ run.events[k].fields[s] \notin run.events[k].gone

\* A destructor has run for a payload that held, when the collection began, a
\* pointer to a box destructed before it.
C5_Witness ==
    /\ run.kind = "collect"
    /\ \E k \in 1..Len(run.events) :
        /\ run.events[k].ev = "drop"
        /\ \E s \in Slots : run.pre.value[run.events[k].id][s] \in run.events[k].gone

\* C6: ref-state arithmetic.  At the end of pass 1, for an id with an entry
\* in ref_state whose ref_count is the number of Gc pointers to it, the entry
\* is at most the ref_count, and when both are equal no handle and no field of
\* an untraced box points to it.
C6_RefStateArithmetic ==
    (run.kind = "collect" /\ run.outcome # "ub") =>
        \A id \in Ids :
            (/\ run.ref_state[id] > 0
             /\ run.pre.ref_count[id] = PtrCount(run.pre, ext, id))
                => /\ run.ref_state[id] <= run.pre.ref_count[id]
                   /\ run.ref_state[id] = run.pre.ref_count[id] =>
                        /\ ext[id] = 0
                        /\ \A j \in Ids \ run.traced, s \in Slots :
                            run.pre.value[j][s] # id

\* Pass 1 has counted one box up to its ref_count and another below it.
C6_Witness ==
    /\ run.kind = "collect"
    /\ run.outcome # "ub"
    /\ \E a, b \in Ids :
        /\ run.pre.ref_count[a] = PtrCount(run.pre, ext, a)
        /\ run.pre.ref_count[b] = PtrCount(run.pre, ext, b)
        /\ run.ref_state[a] > 1
        /\ run.ref_state[a] = run.pre.ref_count[a]
        /\ run.ref_state[b] > 0
        /\ run.ref_state[b] < run.pre.ref_count[b]

\* No collection has destroyed a box so far.
OnlyFastPath == ~unwound /\ \A i \in Ids : n_destructed[i] > 0 => i \in fast_freed

C8_ReentryIgnored ==
    (run.kind = "collect" /\ EventIds(run, "reenter") # {}) => run.outcome = "returned"

\* C9: destructor panic containment.  When a payload destructor panics in
\* pass 3, every entry of collection_queue and every doomed box is released by
\* that collect_all.
C9_PanicContained ==
    (run.kind = "collect" /\ EventIds(run, "panic") # {}) =>
        /\ \A k \in 1..Len(run.queue) : status[run.queue[k].id] = "freed"
        /\ \A i \in Destroyed(run) : status[i] = "freed"

\* C10: sweep closure.  At the end of pass 2 the reachable set holds every
\* registered root and every box reached from one, and pass 3 destroys none
\* of them.
C10_SweepClosure ==
    (run.kind = "collect" /\ run.outcome # "ub") =>
        \A r \in run.pre.to_collect :
            IsRoot(run.pre, run.ref_state, r) =>
                /\ ReachStar(run.pre.value, r) \subseteq run.reachable
                /\ ReachStar(run.pre.value, r) \cap Destroyed(run) = {}

EdgesInto(val, S, id) ==
    Cardinality({p \in S \X Slots : val[p[1]][p[2]] = id})

\* The boxes reached from the registry.
FromRegistry(h) == UNION {ReachStar(h.value, r) : r \in h.to_collect}

\* C12: pass 1 edge counting.  Whatever the iteration order, pass 1 traverses
\* exactly the boxes reached from a registry entry, each once: ref_state[id] is
\* the number of Gc edges into id from those boxes, and an id without such an
\* edge has no entry.
C12_EdgeCounting ==
    (run.kind = "collect" /\ run.outcome # "ub") =>
        /\ run.traced = FromRegistry(run.pre)
        /\ \A id \in Ids :
            run.ref_state[id] = EdgesInto(run.pre.value, FromRegistry(run.pre), id)

\* Pass 1 has run over two registered boxes on a cycle, one of them with two
\* edges into it.
C12_Witness ==
    /\ run.kind = "collect"
    /\ run.outcome # "ub"
    /\ Cardinality(run.pre.to_collect) = 2
    /\ \E a, b \in Ids :
        /\ a # b
        /\ OnCycleWith(run.pre.value, a, b)
        /\ run.ref_state[a] >= 2
        /\ run.ref_state[b] >= 1

\* The "null" events of a collection whose field pointed to id.
NulledInto(r, id) ==
    {k \in 1..Len(r.events) : r.events[k].ev = "null" /\ r.events[k].child = id}

\* C13: edge from a doomed to a reachable box.  The destroyer nulls the field
\* without recursing and the target's ref_count is one lower for it, so that
\* after collect_all every surviving box counts exactly the non-null Gc
\* pointers that still refer to it.
C13_CountLowered ==
    (/\ Returned
     /\ \A i \in Ids : run.pre.status[i] = "live" =>
            run.pre.ref_count[i] = PtrCount(run.pre, ext, i)
     /\ \A r \in run.roots : ReachStar(run.pre.value, r) \cap Destroyed(run) = {}
     /\ \A i \in Destroyed(run) : ext[i] = 0) =>
        \A c \in Ids :
            status[c] = "live" =>
                /\ c \notin Destroyed(run)
                /\ ref_count[c] =
                       run.pre.ref_count[c] - Cardinality(NulledInto(run, c))
                /\ ref_count[c] = PtrCount(Heap, ext, c)

\* The indices of the events of kind ev about box id.
At(r, ev, id) ==
    {k \in 1..Len(r.events) : r.events[k].ev = ev /\ r.events[k].id = id}

\* C14: pass 3 ordering.  For every destroyed box the count is forced to 0,
\* then every child Gc field is nulled, then the payload destructor runs; no
\* storage is deallocated before every destructor of the collection has run.
C14_Pass3Ordering ==
    (run.kind = "collect" /\ run.outcome # "ub") =>
        /\ \A id \in Ids : \A k \in At(run, "drop", id) :
            /\ \E z \in At(run, "zero", id) :
                /\ z < k
                /\ \A n \in At(run, "null", id) : z < n /\ n < k
            /\ \A s \in Slots :
                run.pre.value[id][s] # None =>
                    \E n \in At(run, "null", id) : run.events[n].slot = s
            /\ run.events[k].fields = NoFields
        /\ \A k, m \in 1..Len(run.events) :
            (run.events[k].ev = "drop" /\ run.events[m].ev = "dealloc") => k < m

\* A collection has destroyed two boxes, each with a non-null field, one of
\* them met by recursion from the other, and has released both.
C14_Witness ==
    /\ Returned
    /\ Cardinality(EventIds(run, "drop")) = 2
    /\ Cardinality(EventIds(run, "dealloc")) = 2
    /\ \A id \in EventIds(run, "drop") : At(run, "null", id) # {}
    /\ \E q \in 1..Len(run.queue) : run.queue[q].ptr = "count"

\* C15: no double destruction within a collection.  Each box is taken for
\* destruction at most once, has its payload destructed at most once and is
\* queued for deallocation at most once.
C15_NoDoubleDestruction ==
    run.kind = "collect" =>
        /\ \A id \in Ids :
            /\ Cardinality(At(run, "zero", id)) <= 1
            /\ Cardinality(At(run, "push", id)) <= 1
            /\ Cardinality(At(run, "drop", id)) <= 1
        /\ \A p, q \in 1..Len(run.queue) :
            run.queue[p].id = run.queue[q].id => p = q

\* A collection has destroyed a box that two Gc fields of another destroyed
\* box pointed to, the other being registered and on a cycle with it.
C15_Witness ==
    /\ Returned
    /\ \E a, b \in EventIds(run, "drop") :
        /\ a # b
        /\ \A s \in Slots : run.pre.value[a][s] = b
        /\ \E s \in Slots : run.pre.value[b][s] = a
        /\ run.pre.to_collect = {a, b}

\* C16: deallocation target.  Every collection_queue entry, pushed by the
\* drain loop or by the destroy visitor, holds the box's original pointer and
\* the layout of the whole box.
C16_DeallocTarget ==
    run.kind = "collect" =>
        \A q \in 1..Len(run.queue) :
            /\ run.queue[q].ptr = "box"
            /\ run.queue[q].layout = "box"

\* C19: no dangling pointer after a collection.  When collect_all returns,
\* every external handle and every non-null Gc field of a surviving payload
\* refers to a box this collection has neither destructed nor deallocated,
\* boxes that were never registered included.
C19_NoDangling ==
    (/\ Returned
     /\ \A i \in Ids : run.pre.status[i] = "live" =>
            run.pre.ref_count[i] = PtrCount(run.pre, ext, i)
     /\ \A i \in Ids : ext[i] > 0 => run.pre.status[i] = "live") =>
        /\ \A i \in Ids : ext[i] > 0 => i \notin Destroyed(run)
        /\ \A j \in Ids : \A s \in Slots :
            (status[j] = "live" /\ value[j][s] # None) =>
                /\ value[j][s] \notin Destroyed(run)
                /\ status[value[j][s]] = "live"

VisitedOnce ==
    walk.pc # "idle" =>
        \A i \in Ids :
            /\ walk.b.entered[i] <= 1
            /\ walk.sw.entered[i] <= 1
            /\ walk.d.entered[i] <= 1

\* collect_all has returned: every queued box is released and the steps have
\* done what CollectAll tells.
ReturnedClean ==
    /\ walk.pc = "done"
    /\ ~walk.d.ub
    /\ walk.d.outcome = "returned"
    /\ walk.todo = <<>>
    /\ \A q \in 1..Len(walk.d.queue) : status[walk.d.queue[q].id] = "freed"
    /\ WalkResult(walk) = CollectAll(walk.pre, walk.order, walk.bad)

\* C17: termination.  On every finite registry and graph, cycles, self-loops
\* and multi-edges included, no pass begins the traversal of a payload more
\* than once, and collect_all returns with its collection_queue deallocated.
C17_Termination == []VisitedOnce /\ <>ReturnedClean

\* collect_all has returned from a heap with a self-loop, a cycle of two boxes
\* and a multi-edge, having destroyed both boxes.
C17_Witness ==
    /\ ReturnedClean
    /\ \E a, b \in Ids :
        /\ a # b
        /\ walk.pre.value[a] = [s \in Slots |-> IF s = 1 THEN a ELSE b]
        /\ \A s \in Slots : walk.pre.value[b][s] = a
        /\ Len(walk.d.queue) = 2

\* How often x occurs in the sequence q.
Occurrences(q, x) == Cardinality({k \in 1..Len(q) : q[k] = x})

\* How many Gc pointers to box id the payload p owns: its own, or those of
\* the elements it contains, a borrowed reference owning none.
RECURSIVE Owns(_, _)
Owns(p, id) ==
    IF p.kind = "Gc" THEN (IF p.id = id THEN 1 ELSE 0)
    ELSE IF p.kind \in {"ref", "leaf"} \/ p.items = <<>> THEN 0
    ELSE IF Len(p.items) = 1 THEN Owns(p.items[1], id)
    ELSE Owns(p.items[1], id) + Owns([p EXCEPT !.items = Tail(@)], id)

\* C18: traversal contract of the provided payload types.  Each of
\* add_to_ref_graph, sweep and destroy_gcs, on an Option, RefCell, Vec,
\* VecDeque, LinkedList, HashSet or BinaryHeap, returns having delegated to
\* every contained element exactly once and to nothing else, and so reports
\* every Gc pointer the payload owns and no other; borrowed references and
\* leaves report none.
C18_TraversalContract ==
    impl.op \in {"add_to_ref_graph", "sweep", "destroy_gcs"} =>
        /\ impl.outcome = "returned"
        /\ Len(impl.calls) = Len(impl.payload.items)
        /\ \A k \in 1..Len(impl.payload.items) :
            Occurrences(impl.calls, impl.payload.items[k])
                = Occurrences(impl.payload.items, impl.payload.items[k])
        /\ \A id \in Ids : Occurrences(impl.reported, id) = Owns(impl.payload, id)

====
